---- MODULE Spec2Model ----
(***************************************************************************)
(* Model of scripts/extract_ground_truth_lsp.py: the rust-analyzer LSP     *)
(* client (RustAnalyzerLSP), its background reader thread, and the query   *)
(* executors built on it.                                                  *)
(*                                                                         *)
(* Spec      the session: main thread, reader thread and subprocess.       *)
(* FairSpec  Spec with the fairness of the main thread's poll loop.        *)
(* ExecSpec  main's loop over the queries and the query executors, against *)
(*           a subprocess whose answers are fixed for the run.             *)
(* ResolveSpec  the qualified-name resolver in both directions, on the     *)
(*           text of paths, names and source lines.                        *)
(* CacheSpec the enclosing-function search and the document-symbol cache.  *)
(* SearchSpec  the search for the containing function in a symbol list.   *)
(* HopSpec   a single hop from the result of its request on.               *)
(* PollSpec  Spec with a record of the responses stored in time.           *)
(* RunSpec   Spec with the steps of stop() and the progress of main.       *)
(***************************************************************************)
EXTENDS Integers, Sequences, FiniteSets, TLC

VARIABLES
    pc,          \* position of the main thread
    request_id,  \* RustAnalyzerLSP.request_id
    responses,   \* RustAnalyzerLSP._responses: id -> message
    wire,        \* frames written to the subprocess's stdin, in order
    cur,         \* the request _send_request is waiting for
    elapsed,     \* time.time() - start, in poll intervals
    recvState,   \* the reader thread: "none", "running", "exited"
    procAlive,   \* the subprocess runs (its end of the pipes is open)
    calls,       \* _send_request calls made so far
    last,        \* the latest finished _send_request call
    timedOut,    \* ids of the requests that ended in TimeoutError
    consumed,    \* number of messages popped from the table
    nmsg,        \* number of messages the reader thread has stored
    readFailed,  \* a read of the reader thread has failed
    exitKeys,    \* ids in the table when that read failed
    handshake    \* how _initialize's request ended: "none", "ok", "failed"

sessVars == <<pc, request_id, responses, wire, cur, elapsed, recvState,
              procAlive, calls, last, timedOut, consumed, nmsg, readFailed,
              exitKeys, handshake>>

\* the query executors (ExecSpec)
VARIABLES
    xpc,           \* position of main and of the executor it runs
    world,         \* what the subprocess and the checkout answer, for one run
    queries,       \* queries_with_lsp: the lsp_query descriptors of the run
    qi,            \* index of the query main is processing
    results,       \* what process_query returned, per processed query
    ci,            \* process_chain_query: the hop being run (i + 1)
    current_names, \* process_chain_query: current_names
    idx,           \* process_chain_query: place in current_names[:20]
    new_names,     \* process_chain_query: new_names
    expanded,      \* names handed to reverse resolution in this hop
    hopCalls,      \* process_single_hop_query calls of this chain query
    wirePos        \* position in the latest location request on the wire

execVars == <<xpc, world, queries, qi, results, ci, current_names, idx,
              new_names, expanded, hopCalls, wirePos>>

\* the resolver (ResolveSpec)
VARIABLES
    cache,        \* _doc_symbol_cache: repository-relative path -> symbols
    docRequests,  \* textDocument/documentSymbol requests sent so far
    out,          \* the latest call of a resolver function and what it returned
    probe         \* an earlier find_enclosing_function call, kept for comparison

resVars == <<cache, docRequests, out, probe>>

\* what PollSpec and RunSpec record on top of the session
VARIABLES
    inTime,       \* ids whose response was stored before the timeout elapsed
    teardown      \* how stop() ended: "none" until it has run

pollVars == <<inTime, teardown>>

vars == <<sessVars, execVars, resVars, pollVars>>

----------------------------------------------------------------------------
(* Bounds of the model *)

\* _send_request calls the main thread makes in one run
MaxRequests == 3
\* frames with an id the subprocess writes in one run
MaxMsgs == 3
\* polls of the response table per 30 seconds of timeout
PollsPer30s == 1

\* textDocument/documentSymbol requests the resolver sends in one run
MaxDocRequests == 3
\* candidates in one workspace/symbol result
MaxCandidates == 2
\* symbols in one flat textDocument/documentSymbol result
MaxSymbols == 3
\* .rs files under the largest directory that is scanned
MaxFiles == 52

(* Program constants: the timeouts of _send_request, in seconds *)
DefaultTimeout == 30
InitTimeout == 120
WorkspaceSymbolTimeout == 60
DocumentSymbolTimeout == 30

----------------------------------------------------------------------------
(* Methods *)

LocationMethods == {"textDocument/references", "textDocument/implementation",
                    "textDocument/definition"}

QueryMethods == LocationMethods \cup
                {"textDocument/documentSymbol", "workspace/symbol"}

\* the requests whose callers wrap them in try/except: document_symbols in
\* find_enclosing_function and in the directory scan, workspace_symbol in
\* resolve_qualified_name_to_location and in the module scan
CaughtMethods == {"textDocument/documentSymbol", "workspace/symbol"}

\* timeout of a request in poll intervals
TimeoutOf(method) ==
    LET secs == CASE method = "initialize" -> InitTimeout
                  [] method = "workspace/symbol" -> WorkspaceSymbolTimeout
                  [] method = "textDocument/documentSymbol" -> DocumentSymbolTimeout
                  [] OTHER -> DefaultTimeout
    IN (secs \div 30) * PollsPer30s

\* late: a response stored when its request had already timed out
NoMsg == [id |-> 0, kind |-> "none", late |-> FALSE]
NoReq == [id |-> 0, method |-> "none"]

\* kinds of inbound frames that carry an id: a response with a result, a
\* response with an error object, a request of the server's own
MsgKinds == {"result", "error", "request"}

----------------------------------------------------------------------------
(* The response table *)

\* the key under which _read_responses stores a message, by send order
StoreKeyBySendOrder(msg, rid) == rid
\* the key under which _read_responses stores a message
StoreKey(msg, rid) == msg.id

Put(tbl, k, msg) ==
    [x \in DOMAIN tbl \cup {k} |-> IF x = k THEN msg ELSE tbl[x]]

\* a lookup by arrival: whatever entry the table holds first
LookupAny(tbl, rid) ==
    IF DOMAIN tbl = {} THEN 0
    ELSE CHOOSE k \in DOMAIN tbl : \A x \in DOMAIN tbl : k <= x
\* request_id in self._responses: the key to pop, 0 when it is absent
Lookup(tbl, rid) == IF rid \in DOMAIN tbl THEN rid ELSE 0

\* a lookup that leaves the entry in the table
PopKeep(tbl, k) == tbl
\* a pop that empties the table
PopAll(tbl, k) == <<>>
\* dict.pop: the table without key k
Pop(tbl, k) == [x \in DOMAIN tbl \ {k} |-> tbl[x]]

\* an id allocation that forgets to count
NextIdStuck(rid) == rid
\* self.request_id += 1
NextId(rid) == rid + 1

\* a raise that checks for no error object
RaisesNever(msg) == FALSE
\* "error" in response
Raises(msg) == msg.kind = "error"

\* a reader loop that goes on after a failed read
AfterReadFailureContinue == "running"
\* _read_responses after a failed read: return on end of stream, break on an
\* exception
AfterReadFailure == "exited"

\* a failure that leaves main without passing through its finally clause
AfterFailureNoFinally(method) == "aborted"
\* every caller swallows the failure
AfterFailureSwallow(method) == "ready"
\* where the main thread continues after a failed request: callers of the
\* caught methods log and go on, every other failure unwinds to main's finally
AfterFailure(method) ==
    IF method \in CaughtMethods THEN "ready" ELSE "finally"

NoCall == [id |-> 0, method |-> "none", outcome |-> "none", msg |-> NoMsg,
           afterExit |-> FALSE]

\* the record of a _send_request call that ended
Finished(req, outcome, msg) ==
    [id |-> req.id, method |-> req.method, outcome |-> outcome, msg |-> msg,
     afterExit |-> readFailed]

\* where the main thread continues after a request ended with `outcome`
Continue(method, outcome) ==
    IF outcome = "result"
    THEN IF method = "initialize" THEN "notify" ELSE "ready"
    ELSE AfterFailure(method)

\* the history a finished call leaves behind
Finish(req, outcome, msg) ==
    /\ last' = Finished(req, outcome, msg)
    /\ timedOut' = IF outcome = "timeout" THEN timedOut \cup {req.id}
                   ELSE timedOut
    /\ consumed' = IF msg = NoMsg THEN consumed ELSE consumed + 1
    /\ handshake' = IF req.method # "initialize" THEN handshake
                    ELSE IF outcome = "result" THEN "ok" ELSE "failed"
    /\ pc' = Continue(req.method, outcome)

----------------------------------------------------------------------------
(* Init: the state after RustAnalyzerLSP.__init__ *)

SessInit ==
    /\ pc = "start"
    /\ request_id = 0
    /\ responses = <<>>
    /\ wire = <<>>
    /\ cur = NoReq
    /\ elapsed = 0
    /\ recvState = "none"
    /\ procAlive = FALSE
    /\ calls = 0
    /\ last = NoCall
    /\ timedOut = {}
    /\ consumed = 0
    /\ nmsg = 0
    /\ readFailed = FALSE
    /\ exitKeys = {}
    /\ handshake = "none"

\* None as a location
NoLoc == [file |-> 0, line |-> 0, col |-> 0]

\* the executors are not running
ExecIdle ==
    /\ xpc = "idle"
    /\ world = <<>>
    /\ queries = <<>>
    /\ qi = 0
    /\ results = <<>>
    /\ ci = 0
    /\ current_names = <<>>
    /\ idx = 0
    /\ new_names = {}
    /\ expanded = <<>>
    /\ hopCalls = 0
    /\ wirePos = NoLoc

\* None where a name is expected; the program tests names by truth value,
\* so None and "" take the same branches
None == <<>>

\* None where resolve_qualified_name_to_location returns a tuple
NotFound == [found |-> FALSE, file_path |-> <<>>, line |-> 0, col |-> 0]

NoProbe == [location |-> <<>>, name |-> None]

NoOut == [op |-> "none", arg |-> <<>>, name |-> None, place |-> NotFound,
          names |-> <<>>, raised |-> FALSE, requests |-> 0, warm |-> FALSE]

\* main: _doc_symbol_cache = {}
ResIdle ==
    /\ cache = <<>>
    /\ docRequests = 0
    /\ out = NoOut
    /\ probe = NoProbe

\* no response has been stored, stop() has not run
PollIdle == inTime = {} /\ teardown = "none"

Init == SessInit /\ ExecIdle /\ ResIdle /\ PollIdle

----------------------------------------------------------------------------
(* The main thread *)

\* start(): Popen succeeds, the reader thread starts, _initialize begins
Start ==
    /\ pc = "start"
    /\ procAlive' = TRUE
    /\ recvState' = "running"
    /\ pc' = "init"
    /\ UNCHANGED <<request_id, responses, wire, cur, elapsed, calls, last,
                   timedOut, consumed, nmsg, readFailed, exitKeys, handshake>>
    /\ UNCHANGED <<execVars, resVars, pollVars>>

\* start(): Popen raises (no such binary); main's finally runs stop()
StartFails ==
    /\ pc = "start"
    /\ pc' = "finally"
    /\ UNCHANGED <<request_id, responses, wire, cur, elapsed, recvState,
                   procAlive, calls, last, timedOut, consumed, nmsg, readFailed, exitKeys, handshake>>
    /\ UNCHANGED <<execVars, resVars, pollVars>>

\* _send_request up to the poll loop: allocate the id, write the frame.
\* _send_message raises when the pipe to the subprocess is closed.
SendRequest(method) ==
    /\ calls < MaxRequests
    /\ \/ pc = "init" /\ method = "initialize"
       \/ pc = "ready" /\ method \in QueryMethods
    /\ calls' = calls + 1
    /\ request_id' = NextId(request_id)
    /\ LET req == [id |-> NextId(request_id), method |-> method]
       IN IF procAlive
          THEN /\ wire' = Append(wire, [method |-> method, hasId |-> TRUE,
                                        id |-> req.id])
               /\ cur' = req
               /\ pc' = "poll"
               /\ UNCHANGED <<last, timedOut, consumed, handshake>>
          ELSE /\ Finish(req, "send_error", NoMsg)
               /\ UNCHANGED <<wire, cur>>
    /\ elapsed' = 0
    /\ UNCHANGED <<responses, recvState, procAlive, nmsg, readFailed, exitKeys>>
    /\ UNCHANGED <<execVars, resVars, pollVars>>

\* one pass of the poll loop: the deadline check, then check-and-pop under
\* the lock
Poll ==
    /\ pc = "poll"
    /\ IF elapsed >= TimeoutOf(cur.method)
       THEN /\ Finish(cur, "timeout", NoMsg)
            /\ cur' = NoReq
            /\ elapsed' = 0
            /\ UNCHANGED responses
       ELSE IF Lookup(responses, cur.id) # 0
       THEN LET key == Lookup(responses, cur.id)
                response == responses[key]
            IN /\ responses' = Pop(responses, key)
               /\ Finish(cur, IF Raises(response) THEN "error" ELSE "result",
                         response)
               /\ cur' = NoReq
               /\ elapsed' = 0
       ELSE /\ pc' = "sleep"
            /\ UNCHANGED <<responses, cur, elapsed, last, timedOut, consumed,
                           handshake>>
    /\ UNCHANGED <<request_id, wire, recvState, procAlive, calls, nmsg, readFailed, exitKeys>>
    /\ UNCHANGED <<execVars, resVars, pollVars>>

\* time.sleep(0.01) returns
Wake ==
    /\ pc = "sleep"
    /\ elapsed' = elapsed + 1
    /\ pc' = "poll"
    /\ UNCHANGED <<request_id, responses, wire, cur, recvState, procAlive,
                   calls, last, timedOut, consumed, nmsg, readFailed, exitKeys,
                   handshake>>
    /\ UNCHANGED <<execVars, resVars, pollVars>>

\* _initialize after the initialize result: _send_notification("initialized")
Notify ==
    /\ pc = "notify"
    /\ IF procAlive
       THEN /\ wire' = Append(wire, [method |-> "initialized",
                                     hasId |-> FALSE, id |-> 0])
            /\ pc' = "ready"
       ELSE /\ pc' = "finally"
            /\ UNCHANGED wire
    /\ UNCHANGED <<request_id, responses, cur, elapsed, recvState, procAlive,
                   calls, last, timedOut, consumed, nmsg, readFailed, exitKeys,
                   handshake>>
    /\ UNCHANGED <<execVars, resVars, pollVars>>

\* main: the loop over the queries ends
QueriesDone ==
    /\ pc = "ready"
    /\ pc' = "finally"
    /\ UNCHANGED <<request_id, responses, wire, cur, elapsed, recvState,
                   procAlive, calls, last, timedOut, consumed, nmsg, readFailed, exitKeys, handshake>>
    /\ UNCHANGED <<execVars, resVars, pollVars>>

\* main's finally: stop() terminates the subprocess; the reader thread is a
\* daemon and ends with the interpreter
Stop ==
    /\ pc = "finally"
    /\ procAlive' = FALSE
    /\ pc' = "stopped"
    /\ UNCHANGED <<request_id, responses, wire, cur, elapsed, recvState,
                   calls, last, timedOut, consumed, nmsg, readFailed, exitKeys,
                   handshake>>
    /\ UNCHANGED <<execVars, resVars, pollVars>>

----------------------------------------------------------------------------
(* The reader thread and the subprocess *)

SentIds == {wire[i].id : i \in {j \in 1..Len(wire) : wire[j].hasId}}

\* _read_responses reads a frame that has an id and stores it under the lock.
\* A response answers a request that was sent; a request of the server's own
\* takes its id from the server's id space.
StoreMessage(id, kind) ==
    /\ recvState = "running"
    /\ pc # "stopped"
    /\ nmsg < MaxMsgs
    /\ \/ kind \in {"result", "error"} /\ id \in SentIds
       \/ kind = "request"
    /\ LET msg == [id |-> id, kind |-> kind,
                   late |-> kind \in {"result", "error"} /\ id \in timedOut]
       IN responses' = Put(responses, StoreKey(msg, request_id), msg)
    /\ nmsg' = nmsg + 1
    /\ UNCHANGED <<pc, request_id, wire, cur, elapsed, recvState, procAlive,
                   calls, last, timedOut, consumed, readFailed, exitKeys, handshake>>
    /\ UNCHANGED <<execVars, resVars>>

ReceiverStore(id, kind) == StoreMessage(id, kind) /\ UNCHANGED pollVars

\* _read_responses reads a frame it does not store: a notification (no id),
\* or a header without a Content-Length (content_length == 0: continue).
\* Nothing of the session changes.
ReceiverDiscard ==
    /\ recvState = "running"
    /\ pc # "stopped"
    /\ UNCHANGED <<sessVars, execVars, resVars, pollVars>>

\* _read_responses fails to read a frame: end of stream (return) or an
\* exception while reading or decoding (break)
ReceiverExit ==
    /\ recvState = "running"
    /\ pc # "stopped"
    /\ recvState' = AfterReadFailure
    /\ readFailed' = TRUE
    /\ exitKeys' = DOMAIN responses
    /\ UNCHANGED <<pc, request_id, responses, wire, cur, elapsed, procAlive,
                   calls, last, timedOut, consumed, nmsg, handshake>>
    /\ UNCHANGED <<execVars, resVars, pollVars>>

\* the subprocess dies
Crash ==
    /\ procAlive
    /\ pc # "stopped"
    /\ procAlive' = FALSE
    /\ UNCHANGED <<pc, request_id, responses, wire, cur, elapsed, recvState,
                   calls, last, timedOut, consumed, nmsg, readFailed, exitKeys,
                   handshake>>
    /\ UNCHANGED <<execVars, resVars, pollVars>>

----------------------------------------------------------------------------

Next ==
    \/ Start
    \/ StartFails
    \/ \E method \in QueryMethods \cup {"initialize"} : SendRequest(method)
    \/ Poll
    \/ Wake
    \/ Notify
    \/ QueriesDone
    \/ Stop
    \/ \E id \in 1..MaxRequests, kind \in MsgKinds : ReceiverStore(id, kind)
    \/ ReceiverDiscard
    \/ ReceiverExit
    \/ Crash

Spec == Init /\ [][Next]_vars

\* the message is a response to the request that waits, and the clock of
\* _send_request has not reached the timeout
StoredInTime(id, kind) ==
    /\ kind \in {"result", "error"}
    /\ pc \in {"poll", "sleep"}
    /\ cur.id = id
    /\ elapsed < TimeoutOf(cur.method)

\* ReceiverStore, with the clock read at the moment the message is stored
ReceiverStoreTimed(id, kind) ==
    /\ StoreMessage(id, kind)
    /\ inTime' = IF StoredInTime(id, kind) THEN inTime \cup {id} ELSE inTime
    /\ UNCHANGED teardown

PollNext ==
    \/ Start
    \/ StartFails
    \/ \E method \in QueryMethods \cup {"initialize"} : SendRequest(method)
    \/ Poll
    \/ Wake
    \/ Notify
    \/ QueriesDone
    \/ Stop
    \/ \E id \in 1..MaxRequests, kind \in MsgKinds :
          ReceiverStoreTimed(id, kind)
    \/ ReceiverDiscard
    \/ ReceiverExit
    \/ Crash

PollSpec == Init /\ [][PollNext]_vars

\* stop(): nothing to do when Popen never returned a process; otherwise
\* terminate(), then wait(timeout=5), then kill() if the wait raised.  A
\* subprocess that has already exited is reaped by the wait; a running one
\* exits within the grace period or is killed after it.  No frame is written.
StopRun ==
    /\ pc = "finally"
    /\ pc' = "stopped"
    /\ procAlive' = FALSE
    /\ IF recvState = "none" THEN teardown' = "no_process"
       ELSE IF ~procAlive THEN teardown' = "terminated"
       ELSE teardown' \in {"terminated", "killed"}
    /\ UNCHANGED <<request_id, responses, wire, cur, elapsed, recvState,
                   calls, last, timedOut, consumed, nmsg, readFailed, exitKeys,
                   handshake>>
    /\ UNCHANGED <<execVars, resVars, inTime>>

\* a step of the main thread
MainStep ==
    \/ Start
    \/ StartFails
    \/ \E method \in QueryMethods \cup {"initialize"} : SendRequest(method)
    \/ Poll
    \/ Wake
    \/ Notify
    \/ QueriesDone
    \/ StopRun

RunNext ==
    \/ MainStep
    \/ \E id \in 1..MaxRequests, kind \in MsgKinds : ReceiverStore(id, kind)
    \/ ReceiverDiscard
    \/ ReceiverExit
    \/ Crash

\* main is sequential code in which every call returns or raises: a wait
\* for a response ends at the timeout, the list of queries is finite
RunSpec == Init /\ [][RunNext]_vars /\ WF_vars(MainStep)

\* the main thread is never suspended for ever: time.sleep returns and the
\* lock is held by the reader thread only for one dict assignment
FairSpec == Init /\ [][Next]_vars /\ WF_vars(Poll) /\ WF_vars(Wake)

----------------------------------------------------------------------------
(* Text.  A string is a sequence of tokens; a token is a run of characters *)
(* the program never looks into: "/", "-", "_", "::", ".rs", "file://", a  *)
(* blank, a bracket, or a run of letters and digits.                       *)

\* str.startswith
StartsWith(s, p) == Len(p) <= Len(s) /\ SubSeq(s, 1, Len(p)) = p

Min(a, b) == IF a < b THEN a ELSE b

\* sub in s
Contains(s, sub) ==
    \E i \in 0..(Len(s) - Len(sub)) : SubSeq(s, i + 1, i + Len(sub)) = sub

\* a crate name taken as it stands
KeepDashes(s, a, b) == s
\* str.replace(a, b)
Replace(s, a, b) == [i \in 1..Len(s) |-> IF s[i] = a THEN b ELSE s[i]]

\* str.split(sep)
RECURSIVE Split(_, _)
Split(s, sep) ==
    IF \A i \in 1..Len(s) : s[i] # sep THEN <<s>>
    ELSE LET k == CHOOSE i \in 1..Len(s) :
                     s[i] = sep /\ \A j \in 1..(i - 1) : s[j] # sep
         IN <<SubSeq(s, 1, k - 1)>> \o Split(SubSeq(s, k + 1, Len(s)), sep)

\* sep.join(parts)
RECURSIVE Join(_, _)
Join(parts, sep) ==
    IF parts = <<>> THEN <<>>
    ELSE IF Len(parts) = 1 THEN parts[1]
    ELSE parts[1] \o <<sep>> \o Join(Tail(parts), sep)

\* str.lstrip(ch)
RECURSIVE LStrip(_, _)
LStrip(s, ch) ==
    IF s # <<>> /\ s[1] = ch THEN LStrip(Tail(s), ch) ELSE s

\* str.strip()
RECURSIVE Strip(_)
Strip(s) ==
    IF s # <<>> /\ s[1] = " " THEN Strip(Tail(s))
    ELSE IF s # <<>> /\ s[Len(s)] = " " THEN Strip(SubSeq(s, 1, Len(s) - 1))
    ELSE s

\* ch.isalnum() or ch == '_'
IsIdentifier(tok) ==
    tok \notin {" ", "(", ")", "{", "}", "<", ">", "::", ":", ".", ",", ";",
                "-", "/", "&"}

----------------------------------------------------------------------------
(* The forward direction: location -> name *)

\* str(lsp.repo_path)
RepoRoot == <<"/", "repo">>

\* uri[7:] of a file:// URI
PathOfUri(uri) == Tail(uri)

IsFileUri(uri) == uri # <<>> /\ uri[1] = "file://"

\* the path relative to the repository root, when it lies under the root
RelPath(file_path) ==
    IF StartsWith(file_path, RepoRoot)
    THEN LStrip(SubSeq(file_path, Len(RepoRoot) + 1, Len(file_path)), "/")
    ELSE file_path

\* the module path of a file: the parts after crates/<name>/, a leading src
\* dropped, the extension of the last part stripped, the last part dropped
\* when it is lib or mod
ModuleParts(parts) ==
    LET after == SubSeq(parts, 3, Len(parts))
        module_parts == IF after[1] = <<"src">> THEN Tail(after) ELSE after
    IN IF module_parts = <<>> THEN <<>>
       ELSE LET n == Len(module_parts)
                name == module_parts[n]
                stem == IF name # <<>> /\ name[Len(name)] = ".rs"
                        THEN SubSeq(name, 1, Len(name) - 1) ELSE name
            IN IF stem \in {<<"lib">>, <<"mod">>}
               THEN SubSeq(module_parts, 1, n - 1)
               ELSE [module_parts EXCEPT ![n] = stem]

\* construct_qualified_name_from_file; the same statements close
\* extract_qualified_name_from_location and find_enclosing_function
construct_qualified_name_from_file(rel_path, symbol_name) ==
    LET parts == Split(rel_path, "/")
    IN IF parts[1] = <<"crates">> /\ Len(parts) > 1
       THEN LET crate_name == Replace(parts[2], "-", "_")
            IN IF Len(parts) > 2
               THEN LET module_parts == ModuleParts(parts)
                    IN IF module_parts # <<>>
                       THEN crate_name \o <<"::">> \o Join(module_parts, "::")
                            \o <<"::">> \o symbol_name
                       ELSE crate_name \o <<"::">> \o symbol_name
               ELSE crate_name \o <<"::">> \o symbol_name
       ELSE symbol_name

\* the start of the identifier: start moves left over identifier characters
RECURSIVE ExpandLeft(_, _)
ExpandLeft(line, start) ==
    IF start > 0 /\ IsIdentifier(line[start])
    THEN ExpandLeft(line, start - 1) ELSE start

\* the end of the identifier: end moves right over identifier characters
RECURSIVE ExpandRight(_, _)
ExpandRight(line, end) ==
    IF end < Len(line) /\ IsIdentifier(line[end + 1])
    THEN ExpandRight(line, end + 1) ELSE end

\* line[start:end].strip() after the expansion; None when line[start-1] is
\* past the end of the line (IndexError, caught)
SymbolText(line, start, end) ==
    IF start > Len(line) THEN None
    ELSE Strip(SubSeq(line, ExpandLeft(line, start) + 1,
                      Min(ExpandRight(line, end), Len(line))))

----------------------------------------------------------------------------
(* The checkout the resolver reads *)

CliRs == <<"crates", "/", "core", "/", "src", "/", "cli", ".rs">>

ResolverRs ==
    <<"crates", "/", "hir", "-", "def", "/", "src", "/", "resolver", ".rs">>

HirLib == <<"crates", "/", "hir", "/", "src", "/", "lib", ".rs">>

HirDefLib ==
    <<"crates", "/", "hir", "-", "def", "/", "src", "/", "lib", ".rs">>

Crates == {<<"core">>, <<"hir">>, <<"hir", "-", "def">>}

Dirs == {<<>>, <<<<"sub">>>>, <<<<"my", "-", "dir">>, <<"deep">>>>}

Stems == {<<"lib">>, <<"mod">>, <<"cli">>, <<"resolver">>}

\* crates/<crate>/src/<dirs...>/<stem>.rs
SourcePath(crate, dirs, stem) ==
    <<"crates", "/">> \o crate \o <<"/", "src", "/">>
    \o Join(Append(dirs, stem), "/") \o <<".rs">>

\* the files of the checkout, by repository-relative path; xtask/main.rs
\* lies outside crates/
Files ==
    {SourcePath(c, d, s) : c \in Crates, d \in Dirs, s \in Stems}
    \cup {<<"xtask", "/", "main", ".rs">>}

\* the URI under which the subprocess reports a file of the checkout
UriOf(rel_path) == <<"file://">> \o RepoRoot \o <<"/">> \o rel_path

\* len(lines) of every file
FileLines == 200

\* the identifier declared on a (zero-indexed) line of a file, None when the
\* line declares nothing
Declared(rel_path, n) ==
    CASE rel_path = CliRs /\ n = 50 -> <<"parse">>
      [] rel_path = CliRs /\ n = 100 -> <<"parse", "_", "args">>
      [] rel_path = CliRs /\ n = 110 -> <<"helper">>
      [] rel_path = ResolverRs /\ n = 41 -> <<"resolve", "_", "path">>
      [] rel_path \in {HirLib, HirDefLib} /\ n = 10 -> <<"new">>
      [] OTHER -> None

\* lines[n]: a declaration (its identifier starts at column 4), a use of
\* resolve_path on line 7 of every file, calls of it in cli.rs, or a blank
\* line
LineText(rel_path, n) ==
    IF Declared(rel_path, n) # None
    THEN <<"pub", " ", "fn", " ">> \o Declared(rel_path, n) \o <<"(", ")">>
    ELSE IF n = 7
    THEN <<"use", " ", "resolve", "_", "path", ";">>
    ELSE IF rel_path = CliRs /\ n \in {105, 115, 120}
    THEN <<" ", " ", "resolve", "_", "path", "(", "x", ")", ";">>
    ELSE <<>>

\* open(file_path) succeeds
Readable(file_path) ==
    StartsWith(file_path, RepoRoot \o <<"/">>) /\ RelPath(file_path) \in Files

\* Location(uri, Position(line, from), Position(line, to))
Location(uri, line, from, to) ==
    [uri |-> uri, start |-> [line |-> line, character |-> from],
     end |-> [line |-> line, character |-> to]]

extract_qualified_name_from_location(location) ==
    IF ~IsFileUri(location.uri) THEN None
    ELSE LET file_path == PathOfUri(location.uri)
         IN IF ~Readable(file_path) THEN None
            ELSE IF location.start.line >= FileLines THEN None
            ELSE LET rel_path == RelPath(file_path)
                     line == LineText(rel_path, location.start.line)
                     symbol_name == SymbolText(line, location.start.character,
                                               location.end.character)
                 IN IF symbol_name = None THEN None
                    ELSE construct_qualified_name_from_file(rel_path,
                                                            symbol_name)

----------------------------------------------------------------------------
(* The enclosing-function search and the document-symbol cache *)

\* a symbol of a textDocument/documentSymbol result: DocumentSymbol (nested
\* children) or SymbolInformation (containerName)
Symbol(name, kind, start_line, end_line, containerName, children) ==
    [name |-> name, kind |-> kind, start_line |-> start_line,
     end_line |-> end_line, containerName |-> containerName,
     children |-> children]

\* a symbol that holds only the line of its declaration
AtDeclaration(sym, ref_line) == sym.start_line = ref_line
\* start_line <= ref_line <= end_line
InRange(sym, ref_line) ==
    sym.start_line <= ref_line /\ ref_line <= sym.end_line

\* full_name of a symbol: the container's name, else the parent's, else bare
FullName(sym, parent_name) ==
    IF sym.containerName # None
    THEN sym.containerName \o <<"::">> \o sym.name
    ELSE IF parent_name # None
    THEN parent_name \o <<"::">> \o sym.name
    ELSE sym.name

\* a search that keeps the first function it meets
FirstFound(range_size, best_range_size) == best_range_size < 0
\* range_size < best_range_size, best_range_size starting at infinity
Smaller(range_size, best_range_size) ==
    best_range_size < 0 \/ range_size < best_range_size

\* find_containing_function: the loop over symbols from the i-th on, with
\* best_match and best_range_size so far (no best match: size -1)
RECURSIVE find_containing_function(_, _, _, _, _, _)
find_containing_function(symbols, parent_name, ref_line, i, best_match, best_range_size) ==
    IF i > Len(symbols) THEN best_match
    ELSE LET sym == symbols[i]
             full_name == FullName(sym, parent_name)
             child_result ==
                 IF sym.children = <<>> THEN None
                 ELSE find_containing_function(sym.children, full_name,
                                               ref_line, 1, None, -1)
             range_size == sym.end_line - sym.start_line
         IN IF ~InRange(sym, ref_line)
            THEN find_containing_function(symbols, parent_name, ref_line,
                                          i + 1, best_match, best_range_size)
            ELSE IF child_result # None THEN child_result
            ELSE IF sym.kind \in {6, 12}
                    /\ Smaller(range_size, best_range_size)
            THEN find_containing_function(symbols, parent_name, ref_line,
                                          i + 1, full_name, range_size)
            ELSE find_containing_function(symbols, parent_name, ref_line,
                                          i + 1, best_match, best_range_size)

\* a cache that never holds a file
CacheMiss(c, rel_path) == FALSE
\* rel_path in _doc_symbol_cache
Cached(c, rel_path) == rel_path \in DOMAIN c

\* a store that forgets the files stored before
RememberOnly(c, rel_path, symbols) == Put(<<>>, rel_path, symbols)
\* _doc_symbol_cache[rel_path] = symbols
Remember(c, rel_path, symbols) == Put(c, rel_path, symbols)

\* find_enclosing_function with the cache c; reply is what the subprocess
\* answers if it is asked: [raised, symbols], symbols being `result or []`.
\* Returns the name, the cache afterwards and the number of requests sent.
find_enclosing_function(c, location, reply) ==
    IF ~IsFileUri(location.uri)
    THEN [name |-> None, cache |-> c, requests |-> 0]
    ELSE LET rel_path == RelPath(PathOfUri(location.uri))
             hit == Cached(c, rel_path)
         IN IF ~hit /\ reply.raised
            THEN [name |-> None, cache |-> c, requests |-> 1]
            ELSE LET symbols == IF hit THEN c[rel_path] ELSE reply.symbols
                     function_name ==
                         find_containing_function(symbols, None,
                             location.start.line, 1, None, -1)
                 IN [name |-> IF function_name = None THEN None
                              ELSE construct_qualified_name_from_file(
                                       rel_path, function_name),
                     cache |-> IF hit THEN c
                               ELSE Remember(c, rel_path, symbols),
                     requests |-> IF hit THEN 0 ELSE 1]

\* flatten_document_symbols: every symbol followed by its flattened children
RECURSIVE flatten_document_symbols(_)
flatten_document_symbols(symbols) ==
    IF symbols = <<>> THEN <<>>
    ELSE <<symbols[1]>> \o flatten_document_symbols(symbols[1].children)
         \o flatten_document_symbols(Tail(symbols))

\* kind in [5, 6, 10, 11, 12, 23]
ScanKinds == {5, 6, 10, 11, 12, 23}

\* the files read by one scan, of files[:50]
ScanCap == 50

\* the whole list of files
EveryFile(files) == files
\* files[:50]
ScanCapped(files) == SubSeq(files, 1, Min(Len(files), ScanCap))

\* the names one scanned file adds: the classes, methods, enums,
\* interfaces, functions and structs of its symbols, qualified by the file
NamesOfFile(file_path, symbols) ==
    LET flat == flatten_document_symbols(symbols)
    IN {construct_qualified_name_from_file(file_path, flat[i].name) :
           i \in {j \in DOMAIN flat :
                     flat[j].kind \in ScanKinds /\ flat[j].name # <<>>}}
       \ {None}

\* process_workspace_symbol_query with a directory: files is the file
\* itself or what glob returns, replies[i] what the subprocess answers for
\* files[i] if it is asked: [raised, symbols]. A file whose request fails
\* is logged and skipped. Returns the set of names (the list of a set, its
\* order left open) and the files a request was sent for.
process_workspace_symbol_query(files, replies) ==
    LET scanned == ScanCapped(files)
    IN [names |-> UNION {IF replies[i].raised THEN {}
                         ELSE NamesOfFile(scanned[i], replies[i].symbols) :
                         i \in DOMAIN scanned},
        asked |-> scanned]

----------------------------------------------------------------------------
(* The reverse direction: name -> location *)

\* a candidate of a workspace/symbol result: its name, location.uri and
\* location.range.start
Candidate(name, uri, line, character) ==
    [name |-> name, uri |-> uri, line |-> line, character |-> character]

\* parts[-1].split("<")[0].split("(")[0].strip()
BareSymbol(parts) ==
    Strip(Split(Split(parts[Len(parts)], "<")[1], "(")[1])

\* the candidate's path names the crate of the qualified name, with its
\* underscores as they are or as dashes; a bare name goes with every path
CrateConsistent(parts, file_path) ==
    Len(parts) > 1 =>
       \/ Contains(file_path, <<"crates", "/">> \o Replace(parts[1], "_", "-"))
       \/ Contains(file_path, <<"crates", "/">> \o parts[1])

\* the loop over the results: the first candidate with a file:// URI whose
\* path is consistent with the crate
RECURSIVE FirstCandidate(_, _, _)
FirstCandidate(found, parts, i) ==
    IF i > Len(found) THEN NotFound
    ELSE LET symbol == found[i]
         IN IF ~IsFileUri(symbol.uri)
            THEN FirstCandidate(found, parts, i + 1)
            ELSE IF ~CrateConsistent(parts, PathOfUri(symbol.uri))
            THEN FirstCandidate(found, parts, i + 1)
            ELSE [found |-> TRUE, file_path |-> RelPath(PathOfUri(symbol.uri)),
                  line |-> symbol.line, col |-> symbol.character]

\* resolve_qualified_name_to_location; response is what the subprocess
\* answers to workspace/symbol: [raised, results]
resolve_qualified_name_to_location(qualified_name, response) ==
    LET parts == Split(qualified_name, "::")
    IN IF BareSymbol(parts) = None THEN NotFound
       ELSE IF response.raised THEN NotFound
       ELSE FirstCandidate(response.results, parts, 1)

----------------------------------------------------------------------------
(* The locations of a result and their names *)

\* a JSON object of a result: its keys in order, and the Location it holds
\* when it is a Location object
JsonObject(keys, loc) == [keys |-> keys, loc |-> loc]

\* the result member of a response: null, an array of objects, or one object
JsonResult(shape, items) == [shape |-> shape, items |-> items]

\* "uri" in loc, loc a dict
HasUriKey(item) == \E i \in 1..Len(item.keys) : item.keys[i] = <<"uri">>

\* _parse_locations.  Over an array it keeps the objects with a uri.  Over
\* one object the loop runs over its keys: a key that contains "uri" passes
\* the test and key.get raises AttributeError; the other keys are skipped.
parse_locations(locations) ==
    IF locations.shape = "object"
    THEN [raised |-> \E i \in 1..Len(locations.items[1].keys) :
                        Contains(locations.items[1].keys[i], <<"uri">>),
          locations |-> <<>>]
    ELSE LET kept == SelectSeq(locations.items, HasUriKey)
         IN [raised |-> FALSE,
             locations |-> [i \in 1..Len(kept) |-> kept[i].loc]]

\* find_references, find_implementations, find_definition once the result
\* has arrived: only find_definition wraps a dict into a list
find_locations(method, result) ==
    IF method = "textDocument/definition" /\ result.shape = "object"
    THEN parse_locations(JsonResult("array", result.items))
    ELSE parse_locations(result)

\* every location named by the symbol at the location
resolve_direct(c, method, location, reply) ==
    [name |-> extract_qualified_name_from_location(location), cache |-> c,
     requests |-> 0]
\* the body of the loop over locations in process_single_hop_query
resolve_location(c, method, location, reply) ==
    IF method = "textDocument/references"
    THEN find_enclosing_function(c, location, reply)
    ELSE resolve_direct(c, method, location, reply)

\* the loop over locations: qualified_names, with the cache and the
\* requests it leaves behind
RECURSIVE resolve_locations(_, _, _, _, _, _)
resolve_locations(c, method, locations, reply, i, acc) ==
    IF i > Len(locations) THEN acc
    ELSE LET r == resolve_location(acc.cache, method, locations[i], reply)
         IN resolve_locations(c, method, locations, reply, i + 1,
                [qualified_names |-> IF r.name # None
                                     THEN Append(acc.qualified_names, r.name)
                                     ELSE acc.qualified_names,
                 cache |-> r.cache,
                 requests |-> acc.requests + r.requests])

\* list(set(names)): the names once each, in an order the program does not
\* choose
ListsOfSet(S) ==
    {s \in [1..Cardinality(S) -> S] : \A x \in S : \E i \in DOMAIN s : s[i] = x}

\* process_single_hop_query from the result of its request on
process_single_hop_query(c, method, result, reply) ==
    LET parsed == find_locations(method, result)
        start == [qualified_names |-> <<>>, cache |-> c, requests |-> 0]
    IN IF method \notin LocationMethods
       THEN [raised |-> FALSE, qualified_names |-> <<>>, cache |-> c,
             requests |-> 0]
       ELSE IF parsed.raised
       THEN [raised |-> TRUE, qualified_names |-> <<>>, cache |-> c,
             requests |-> 0]
       ELSE [raised |-> FALSE] @@
            resolve_locations(c, method, parsed.locations, reply, 1, start)

----------------------------------------------------------------------------
(* The query executors. The subprocess and the checkout are a world fixed  *)
(* for the run: symbol n (n = 0 is the symbol of the explicit target) is   *)
(* declared at SymbolPos(n), and a location is named by the symbol found   *)
(* there.                                                                  *)

\* names a hop may carry over to the next one
MaxNames == 22
\* hops of a chain query
MaxChainLen == 2

\* current_names[:20]
FanoutCap == 20

\* Python's None as a name
NoName == 0

\* zero-indexed position of the declaration of symbol n
SymbolPos(n) == [file |-> 1, line |-> n, col |-> n % 3]

\* "" as a target
NoTarget == NoLoc

\* the one-indexed target "path:line:col" of symbol 0
SeedTarget == [file |-> 1, line |-> 1, col |-> 1]

\* the symbol declared at a zero-indexed position, -1 when there is none
SymbolAt(pos) ==
    IF \E n \in 0..MaxNames : SymbolPos(n) = pos
    THEN CHOOSE n \in 0..MaxNames : SymbolPos(n) = pos
    ELSE -1

\* the locations the subprocess returns for a request at pos
ServerLocations(w, pos) ==
    LET n == SymbolAt(pos)
    IN IF n = -1 THEN {}
       ELSE IF n = 0 THEN 1..w.n0
       ELSE CASE w.mode = "self" -> {n}
              [] w.mode = "next" -> {n, n + 1} \cap (1..MaxNames)
              [] OTHER -> {1}

\* find_references, find_implementations, find_definition: the request at
\* the zero-indexed position either raises (timeout, LSP error, write error)
\* or returns the parsed locations
FindLocations(w, method, pos) ==
    [raised |-> SymbolAt(pos) = w.raiseAt /\ SymbolAt(pos) # -1,
     locs |-> ServerLocations(w, pos)]

\* extract_qualified_name_from_location: the name of the symbol at the
\* location, None when the file or the identifier cannot be read
ExtractQualifiedName(w, loc) == IF loc \in w.noname THEN NoName ELSE loc

\* find_enclosing_function: the function around the location (two call
\* sites per function), None when no function contains it or the
\* document-symbol request fails
FindEnclosingFunction(w, loc) ==
    IF loc \in w.noname THEN NoName ELSE (loc + 1) \div 2

\* a target left zero-indexed
ToPositionNoShift(target) ==
    [file |-> target.file, line |-> target.line, col |-> target.col]
\* int(line_str) - 1, int(col_str) - 1
ToPosition(target) ==
    [file |-> target.file, line |-> target.line - 1, col |-> target.col - 1]

\* every location named by the symbol at the location
NameOfLocationDirect(w, method, loc) == ExtractQualifiedName(w, loc)
\* the name process_single_hop_query gives a returned location
NameOfLocation(w, method, loc) ==
    IF method = "textDocument/references"
    THEN FindEnclosingFunction(w, loc)
    ELSE ExtractQualifiedName(w, loc)

\* process_single_hop_query: [raised, names, sent]; names is the set behind
\* the returned list(set(qualified_names)), sent the zero-indexed position
\* of its request, None when it sends none
ProcessSingleHop(w, q) ==
    IF q.target = NoTarget
    THEN [raised |-> FALSE, names |-> {}, sent |-> NoLoc]
    ELSE IF q.method \notin LocationMethods
    THEN [raised |-> FALSE, names |-> {}, sent |-> NoLoc]
    ELSE LET pos == ToPosition(q.target)
             r == FindLocations(w, q.method, pos)
         IN IF r.raised THEN [raised |-> TRUE, names |-> {}, sent |-> pos]
            ELSE [raised |-> FALSE,
                  names |-> {NameOfLocation(w, q.method, l) : l \in r.locs}
                            \ {NoName},
                  sent |-> pos]

\* the position of the latest location request after a single hop
Dispatched(pos, r) == IF r.sent = NoLoc THEN pos ELSE r.sent

\* the qualified name of symbol n, a function of crates/core/src/cli.rs
NameText(n) == <<"core", "::", "cli", "::", "f", ToString(n)>>

\* crates/core-api/src/lib.rs, a file of a crate whose name begins with
\* the name of crate core
CoreApiLib ==
    <<"crates", "/", "core", "-", "api", "/", "src", "/", "lib", ".rs">>

\* what the subprocess answers to workspace/symbol for the name of symbol
\* n: its declaration; for symbol 1 the world decides: the declaration
\* after a namesake of crate hir, nothing, only the namesake of crate hir,
\* only a namesake of crate core-api, or the request fails
WorkspaceSymbols(w, n) ==
    LET own == Candidate(<<"f", ToString(n)>>, UriOf(CliRs),
                         SymbolPos(n).line, SymbolPos(n).col)
        namesake(f) == Candidate(<<"f", ToString(n)>>, UriOf(f), 10, 4)
        given(found) == [raised |-> FALSE, results |-> found]
    IN IF n # 1 THEN given(<<own>>)
       ELSE CASE w.wsym = "found" -> given(<<namesake(HirLib), own>>)
              [] w.wsym = "absent" -> given(<<>>)
              [] w.wsym = "othercrate" -> given(<<namesake(HirLib)>>)
              [] w.wsym = "prefixcrate" -> given(<<namesake(CoreApiLib)>>)
              [] OTHER -> [raised |-> TRUE, results |-> <<>>]

\* resolve_qualified_name_to_location as process_chain_query sees it:
\* (file, line, col) zero-indexed, or None; file 1 is crates/core/src/cli.rs,
\* file 2 any other file
ReverseResolve(w, name) ==
    LET place == resolve_qualified_name_to_location(NameText(name),
                                                    WorkspaceSymbols(w, name))
    IN IF place.found
       THEN [file |-> IF place.file_path = CliRs THEN 1 ELSE 2,
             line |-> place.line, col |-> place.col]
       ELSE NoLoc

RECURSIVE Ascending(_)
Ascending(S) ==
    IF S = {} THEN <<>>
    ELSE LET m == CHOOSE x \in S : \A y \in S : x <= y
         IN <<m>> \o Ascending(S \ {m})

RECURSIVE Descending(_)
Descending(S) ==
    IF S = {} THEN <<>>
    ELSE LET m == CHOOSE x \in S : \A y \in S : x >= y
         IN <<m>> \o Descending(S \ {m})

\* list(set(names)): the order of the list is the set's iteration order,
\* which the program does not choose
ListOfSet(w, S) == IF w.order = "asc" THEN Ascending(S) ELSE Descending(S)

Range(seq) == {seq[i] : i \in 1..Len(seq)}

\* the whole list
Uncapped(names) == names
\* current_names[:20]
Capped(names) == SubSeq(names, 1, Min(Len(names), FanoutCap))

\* the next hop starts from the names of this hop and of the hops before
CarriedOverWithPrevious(names, new) == Range(names) \cup new
\* current_names = list(set(new_names)): the names the next hop starts from
CarriedOver(names, new) == new

\* a first hop that drops the target
FirstHopQueryNoTarget(hop) == [method |-> hop.method, target |-> NoTarget]
\* hop_query of the first hop
FirstHopQuery(hop) == [method |-> hop.method, target |-> hop.target]

\* hop_query of a later hop: f"{file_path}:{line+1}:{col+1}"
NextHopQuery(method, loc) ==
    [method |-> method,
     target |-> [file |-> loc.file, line |-> loc.line + 1, col |-> loc.col + 1]]

\* process_query: the executor a descriptor is handed to
Dispatch(q) ==
    IF q.type = "single_hop" \/ (q.method # "" /\ q.target # NoTarget)
    THEN "single_hop"
    ELSE IF q.type = "chain" THEN "chain"
    ELSE IF q.type = "workspace_symbol" THEN "workspace_symbol"
    ELSE "unknown"

\* main has try/finally and no except: the failure ends the loop
AfterQueryFailure == "finally"

----------------------------------------------------------------------------
(* The runs ExecSpec starts from *)

SeedSizes == {0, 1, FanoutCap, FanoutCap + 1, MaxNames}

Worlds ==
    [n0 : SeedSizes, mode : {"self", "next", "first"},
     raiseAt : {-1, 0, 1},
     wsym : {"found", "absent", "othercrate", "prefixcrate", "raises"},
     noname : {{}, {2}},
     order : {"asc", "desc"}]

HopMethods == LocationMethods \cup {"unknown"}

RECURSIVE Tails(_)
Tails(n) ==
    IF n = 0 THEN {<<>>}
    ELSE LET shorter == Tails(n - 1)
         IN shorter \cup
            {Append(t, [method |-> m, target |-> NoTarget]) :
                t \in {u \in shorter : Len(u) = n - 1}, m \in LocationMethods}

SingleQuery(m, t) ==
    [type |-> "single_hop", method |-> m, target |-> t, chain |-> <<>>]

ChainQuery(m, t, tail) ==
    [type |-> "chain", method |-> "", target |-> NoTarget,
     chain |-> <<[method |-> m, target |-> t]>> \o tail]

QueryRuns ==
    UNION {{<<SingleQuery(m, t), ChainQuery(m, t, tail)>>,
            <<ChainQuery(m, t, tail), SingleQuery(m, t)>>} :
           m \in HopMethods, t \in {SeedTarget, NoTarget},
           tail \in Tails(MaxChainLen - 1)}

\* the session is not modelled while the executors run
ExecInit ==
    /\ SessInit
    /\ ResIdle
    /\ PollIdle
    /\ xpc = "main"
    /\ world \in Worlds
    /\ queries \in QueryRuns
    /\ qi = 1
    /\ results = <<>>
    /\ ci = 0
    /\ current_names = <<>>
    /\ idx = 0
    /\ new_names = {}
    /\ expanded = <<>>
    /\ hopCalls = 0
    /\ wirePos = NoLoc

----------------------------------------------------------------------------
(* main's loop and the executors *)

\* main: process_query on a single-hop descriptor
RunSingleHopQuery ==
    /\ xpc = "main"
    /\ qi <= Len(queries)
    /\ Dispatch(queries[qi]) = "single_hop"
    /\ LET r == ProcessSingleHop(world, queries[qi])
       IN /\ wirePos' = Dispatched(wirePos, r)
          /\ IF r.raised
             THEN /\ xpc' = AfterQueryFailure
                  /\ UNCHANGED <<qi, results>>
             ELSE /\ results' = Append(results, r.names)
                  /\ qi' = qi + 1
                  /\ xpc' = "main"
    /\ UNCHANGED <<world, queries, ci, current_names, idx, new_names,
                   expanded, hopCalls, sessVars, resVars, pollVars>>

\* main: process_query on a chain descriptor enters process_chain_query
ChainBegin ==
    /\ xpc = "main"
    /\ qi <= Len(queries)
    /\ Dispatch(queries[qi]) = "chain"
    /\ IF queries[qi].chain = <<>>
       THEN /\ results' = Append(results, {})
            /\ qi' = qi + 1
            /\ UNCHANGED <<xpc, ci>>
       ELSE /\ xpc' = "chain"
            /\ ci' = 1
            /\ UNCHANGED <<qi, results>>
    /\ current_names' = <<>>
    /\ idx' = 0
    /\ new_names' = {}
    /\ expanded' = <<>>
    /\ hopCalls' = 0
    /\ UNCHANGED <<world, queries, wirePos, sessVars, resVars, pollVars>>

\* process_chain_query, i == 0: the hop with the explicit target
ChainFirstHop ==
    /\ xpc = "chain"
    /\ ci = 1
    /\ LET hop == queries[qi].chain[1]
       IN IF hop.target = NoTarget
          THEN /\ ci' = 2
               /\ idx' = 1
               /\ UNCHANGED <<xpc, current_names, hopCalls, wirePos>>
          ELSE LET r == ProcessSingleHop(world, FirstHopQuery(hop))
               IN /\ hopCalls' = hopCalls + 1
                  /\ wirePos' = Dispatched(wirePos, r)
                  /\ IF r.raised
                     THEN /\ xpc' = AfterQueryFailure
                          /\ UNCHANGED <<ci, idx, current_names>>
                     ELSE /\ current_names' = ListOfSet(world, r.names)
                          /\ ci' = 2
                          /\ idx' = 1
                          /\ xpc' = "chain"
    /\ new_names' = {}
    /\ expanded' = <<>>
    /\ UNCHANGED <<world, queries, qi, results, sessVars, resVars, pollVars>>

\* process_chain_query, i > 0: one pass of the loop over current_names[:20]
ChainExpand ==
    /\ xpc = "chain"
    /\ 1 < ci /\ ci <= Len(queries[qi].chain)
    /\ idx <= Len(Capped(current_names))
    /\ LET prev_name == Capped(current_names)[idx]
           loc == ReverseResolve(world, prev_name)
       IN /\ expanded' = Append(expanded, prev_name)
          /\ IF loc = NoLoc
             THEN /\ idx' = idx + 1
                  /\ UNCHANGED <<xpc, new_names, hopCalls, wirePos>>
             ELSE LET r == ProcessSingleHop(world,
                              NextHopQuery(queries[qi].chain[ci].method, loc))
                  IN /\ hopCalls' = hopCalls + 1
                     /\ wirePos' = Dispatched(wirePos, r)
                     /\ IF r.raised
                        THEN /\ xpc' = AfterQueryFailure
                             /\ UNCHANGED <<idx, new_names>>
                        ELSE /\ new_names' = new_names \cup r.names
                             /\ idx' = idx + 1
                             /\ xpc' = "chain"
    /\ UNCHANGED <<world, queries, qi, results, ci, current_names, sessVars,
                   resVars, pollVars>>

\* process_chain_query, i > 0: the loop is over,
\* current_names = list(set(new_names))
ChainEndStep ==
    /\ xpc = "chain"
    /\ 1 < ci /\ ci <= Len(queries[qi].chain)
    /\ idx > Len(Capped(current_names))
    /\ current_names' =
          ListOfSet(world, CarriedOver(current_names, new_names))
    /\ ci' = ci + 1
    /\ idx' = 1
    /\ new_names' = {}
    /\ expanded' = <<>>
    /\ UNCHANGED <<xpc, world, queries, qi, results, hopCalls, wirePos,
                   sessVars, resVars, pollVars>>

\* process_chain_query returns current_names
ChainReturn ==
    /\ xpc = "chain"
    /\ ci > Len(queries[qi].chain)
    /\ results' = Append(results, Range(current_names))
    /\ qi' = qi + 1
    /\ xpc' = "main"
    /\ UNCHANGED <<world, queries, ci, current_names, idx, new_names,
                   expanded, hopCalls, wirePos, sessVars, resVars, pollVars>>

\* main: the loop over queries_with_lsp is over
LoopEnds ==
    /\ xpc = "main"
    /\ qi > Len(queries)
    /\ xpc' = "finally"
    /\ UNCHANGED <<world, queries, qi, results, ci, current_names, idx,
                   new_names, expanded, hopCalls, wirePos, sessVars,
                   resVars, pollVars>>

\* main's finally: lsp.stop(); an exception on its way ends the script
StopServer ==
    /\ xpc = "finally"
    /\ xpc' = "exit"
    /\ UNCHANGED <<world, queries, qi, results, ci, current_names, idx,
                   new_names, expanded, hopCalls, wirePos, sessVars,
                   resVars, pollVars>>

ExecNext ==
    \/ RunSingleHopQuery
    \/ ChainBegin
    \/ ChainFirstHop
    \/ ChainExpand
    \/ ChainEndStep
    \/ ChainReturn
    \/ LoopEnds
    \/ StopServer

ExecSpec == ExecInit /\ [][ExecNext]_vars

----------------------------------------------------------------------------
(* What the subprocess answers to the resolver *)

\* the symbols rust-analyzer knows: the declarations of the checkout
Declarations ==
    {[name |-> Declared(f, n), uri |-> UriOf(f), line |-> n, character |-> 4] :
        f \in {CliRs, ResolverRs, HirLib, HirDefLib}, n \in {10, 41, 50, 100}}
    \ {[name |-> None, uri |-> UriOf(f), line |-> n, character |-> 4] :
        f \in Files, n \in {10, 41, 50, 100}}

\* a candidate that is not a file of the checkout
UnsavedBuffer ==
    [name |-> <<"parse">>, uri |-> <<"untitled:", "Untitled", "-", "1">>,
     line |-> 0, character |-> 0]

\* the subprocess matches a query against the beginning of a symbol's name
Matching(query) ==
    {d \in Declarations \cup {UnsavedBuffer} : StartsWith(d.name, query)}

\* workspace/symbol: the request fails, or returns up to MaxCandidates
\* matching symbols in an order the subprocess chooses
WorkspaceSymbolResponses(query) ==
    {[raised |-> TRUE, results |-> <<>>]} \cup
    {[raised |-> FALSE, results |-> r] :
        r \in {s \in UNION {[1..n -> Matching(query)] : n \in 0..MaxCandidates} :
                  \A i, j \in DOMAIN s : i # j => s[i] # s[j]}}

\* textDocument/documentSymbol: the request fails, or returns the symbols of
\* the file flat with container names, nested with children, or none
DocSymbolReplies(rel_path) ==
    LET parse == <<"parse">>
        parse_args == <<"parse", "_", "args">>
        helper == <<"helper">>
        resolve_path == <<"resolve", "_", "path">>
        given(symbols) == [raised |-> FALSE, symbols |-> symbols]
    IN {[raised |-> TRUE, symbols |-> <<>>], given(<<>>)} \cup
       CASE rel_path = CliRs ->
              {given(<<Symbol(parse, 12, 50, 60, None, <<>>),
                       Symbol(parse_args, 12, 100, 140, None, <<>>),
                       Symbol(helper, 12, 110, 118, parse_args, <<>>)>>),
               given(<<Symbol(parse, 12, 50, 60, None, <<>>),
                       Symbol(parse_args, 12, 100, 140, None,
                          <<Symbol(helper, 12, 110, 118, None, <<>>)>>)>>)}
         [] rel_path = ResolverRs ->
              {given(<<Symbol(<<"Resolver">>, 23, 20, 25, None, <<>>),
                       Symbol(resolve_path, 6, 41, 60, <<"Resolver">>, <<>>)>>),
               given(<<Symbol(<<"impl", " ", "Resolver">>, 19, 30, 80, None,
                          <<Symbol(resolve_path, 6, 41, 60, None, <<>>)>>)>>)}
         [] OTHER -> {}

----------------------------------------------------------------------------
(* The calls ResolveSpec, CacheSpec and HopSpec make *)

\* locations handed to extract_qualified_name_from_location: the use on
\* line 7 of every file, declarations, a call, and locations that cannot be
\* read
DirectLocations ==
    {Location(UriOf(f), 7, 2, 5) : f \in Files}
    \cup {Location(UriOf(f), 7, c, c) : f \in {CliRs, ResolverRs}, c \in 2..5}
    \cup {Location(d.uri, d.line, 4, 4 + Len(d.name)) : d \in Declarations}
    \cup {Location(UriOf(CliRs), 120, 2, 5),
          Location(UriOf(CliRs), 0, 0, 0),
          Location(UriOf(CliRs), 7, 9, 9),
          Location(UriOf(CliRs), FileLines, 0, 0),
          Location(UriOf(<<"crates", "/", "gone", ".rs">>), 7, 2, 5),
          Location(UnsavedBuffer.uri, 7, 2, 5)}

\* locations handed to find_enclosing_function
EnclosingLocations ==
    {Location(UriOf(CliRs), n, c, c + 3) :
        n \in {99, 100, 105, 115, 140, 141}, c \in {0, 2}}
    \cup {Location(UriOf(ResolverRs), n, 4, 7) : n \in {41, 70}}
    \cup {Location(UnsavedBuffer.uri, 100, 0, 0)}

\* names handed to resolve_qualified_name_to_location
QualifiedNames ==
    {construct_qualified_name_from_file(RelPath(PathOfUri(d.uri)), d.name) :
        d \in Declarations}
    \cup {<<"core", "::", "cli", "::", "Cli", "::", "parse", "_", "args">>,
          <<"core", "::", "cli", "::", "parse", "<", "T", ">">>,
          <<"syntax", "::", "parse">>,
          <<"parse">>,
          <<"core", "::">>}

\* the objects of a location result: two calls in cli.rs, a blank line, and
\* a LocationLink to a declaration
ResultObjects ==
    {JsonObject(<<<<"uri">>, <<"range">>>>, l) :
        l \in {Location(UriOf(CliRs), 105, 2, 5),
               Location(UriOf(CliRs), 115, 2, 5),
               Location(UriOf(CliRs), 0, 0, 0)}}
    \cup {JsonObject(<<<<"target", "Uri">>, <<"target", "Range">>>>,
                     Location(UriOf(CliRs), 100, 4, 7))}

\* the results of a location request: null, an array of no, one or two
\* objects, or one bare object
LocationResults ==
    {JsonResult("null", <<>>), JsonResult("array", <<>>)}
    \cup {JsonResult("array", <<a>>) : a \in ResultObjects}
    \cup {JsonResult("array", <<a, b>>) : a, b \in ResultObjects}
    \cup {JsonResult("object", <<o>>) : o \in ResultObjects}

\* the document-symbol replies a single hop can meet: find_enclosing_function
\* is called for textDocument/references only
RepliesAsked(method) ==
    IF method = "textDocument/references" THEN DocSymbolReplies(CliRs)
    ELSE {[raised |-> TRUE, symbols |-> <<>>]}

\* a call of extract_qualified_name_from_location
ExtractName ==
    /\ \E location \in DirectLocations :
          out' = [NoOut EXCEPT !.op = "extract", !.arg = location,
                     !.name = extract_qualified_name_from_location(location)]
    /\ UNCHANGED <<cache, docRequests, probe, sessVars, execVars, pollVars>>

\* a call of resolve_qualified_name_to_location
ReverseResolveName ==
    /\ \E qualified_name \in QualifiedNames :
          \E response \in WorkspaceSymbolResponses(
                             BareSymbol(Split(qualified_name, "::"))) :
             out' = [NoOut EXCEPT
                        !.op = "reverse",
                        !.arg = [qualified_name |-> qualified_name,
                                 results |-> response.results],
                        !.raised = response.raised,
                        !.place = resolve_qualified_name_to_location(
                                      qualified_name, response)]
    /\ UNCHANGED <<cache, docRequests, probe, sessVars, execVars, pollVars>>

\* process_single_hop_query once the result of its request has arrived
SingleHopResult ==
    /\ \E method \in HopMethods, result \in LocationResults :
       \E reply \in RepliesAsked(method) :
          LET r == process_single_hop_query(cache, method, result, reply)
          IN /\ docRequests + r.requests <= MaxDocRequests
             /\ cache' = r.cache
             /\ docRequests' = docRequests + r.requests
             /\ \E names \in ListsOfSet(Range(r.qualified_names)) :
                   out' = [NoOut EXCEPT
                              !.op = "single_hop",
                              !.arg = [method |-> method, result |-> result],
                              !.names = names,
                              !.raised = r.raised,
                              !.requests = r.requests]
    /\ UNCHANGED <<probe, sessVars, execVars, pollVars>>

\* a call of find_enclosing_function
FindEnclosing ==
    /\ \E location \in EnclosingLocations :
          \E reply \in DocSymbolReplies(RelPath(PathOfUri(location.uri))) :
             LET r == find_enclosing_function(cache, location, reply)
                 rel_path == RelPath(PathOfUri(location.uri))
             IN /\ docRequests + r.requests <= MaxDocRequests
                /\ cache' = r.cache
                /\ docRequests' = docRequests + r.requests
                /\ out' = [NoOut EXCEPT
                              !.op = "enclosing",
                              !.arg = location,
                              !.name = r.name,
                              !.raised = r.requests = 1 /\ reply.raised,
                              !.requests = r.requests,
                              !.warm = rel_path \in DOMAIN cache]
                /\ probe' \in {probe} \cup
                      IF rel_path \in DOMAIN r.cache
                      THEN {[location |-> location, name |-> r.name]}
                      ELSE {}
    /\ UNCHANGED <<sessVars, execVars, pollVars>>

\* the symbols a flat listing is made of: functions inside one another with
\* container names, and a struct around them
FlatPool ==
    {Symbol(<<"parse">>, 12, 50, 60, None, <<>>),
     Symbol(<<"parse", "_", "args">>, 12, 100, 140, None, <<>>),
     Symbol(<<"helper">>, 12, 110, 118, <<"parse", "_", "args">>, <<>>),
     Symbol(<<"inner">>, 6, 112, 114, <<"helper">>, <<>>),
     Symbol(<<"Cli">>, 23, 90, 150, None, <<>>)}

\* nested listings: children lie within their parent, siblings do not
\* overlap
NestedListings ==
    LET parse == Symbol(<<"parse">>, 12, 50, 60, None, <<>>)
        inner == Symbol(<<"inner">>, 12, 112, 114, None, <<>>)
        helper == Symbol(<<"helper">>, 12, 110, 118, None, <<inner>>)
        point == Symbol(<<"Point">>, 23, 120, 130, None,
                        <<Symbol(<<"x">>, 8, 121, 121, None, <<>>)>>)
        parse_args == Symbol(<<"parse", "_", "args">>, 12, 100, 140, None,
                             <<helper, point>>)
        run == Symbol(<<"run">>, 6, 141, 141, None,
                      <<Symbol(<<"once">>, 12, 141, 141, None, <<>>)>>)
        impl == Symbol(<<"impl", " ", "Cli">>, 19, 90, 150, None,
                       <<parse_args, run>>)
        consts == Symbol(<<"consts">>, 2, 160, 170, None,
                         <<Symbol(<<"MAX">>, 14, 161, 161, None, <<>>)>>)
    IN {<<parse, impl>>, <<impl, parse>>, <<parse, parse_args>>,
        <<parse_args, run, consts>>, <<consts, impl>>, <<helper>>, <<point>>}

\* the listings the search is run over
Listings ==
    NestedListings \cup
    {s \in UNION {[1..n -> FlatPool] : n \in 0..MaxSymbols} :
        \A i, j \in DOMAIN s : i # j => s[i] # s[j]}

\* the lines searched for: inside, at the ends of and outside the ranges
RefLines == {49, 50, 105, 113, 118, 121, 141, 145, 165}

\* a call of find_containing_function on the symbols of a file
FindContaining ==
    /\ \E symbols \in Listings, ref_line \in RefLines :
          out' = [NoOut EXCEPT
                     !.op = "containing",
                     !.arg = [symbols |-> symbols, ref_line |-> ref_line],
                     !.name = find_containing_function(symbols, None, ref_line,
                                                       1, None, -1)]
    /\ UNCHANGED <<cache, docRequests, probe, sessVars, execVars, pollVars>>

\* a file of the scanned directory other than cli.rs
ModFile(i) == <<"crates", "/", "core", "/", "src", "/", "m", ToString(i), ".rs">>

\* what glob returns for a directory of n files, cli.rs first
Glob(n) == [i \in 1..n |-> IF i = 1 THEN CliRs ELSE ModFile(i)]

\* directories of no file, of one, and of one less, as many, and more than
\* the scan reads
DirSizes == {0, 1, ScanCap - 1, ScanCap, ScanCap + 1, MaxFiles}

\* the files whose request fails: none, an early one, one past the last read
Unreadable == {{}, {2}, {ScanCap + 1}}

\* the answer for a file of the directory: a function and a constant
ModReply(i, unreadable) ==
    IF i \in unreadable THEN [raised |-> TRUE, symbols |-> <<>>]
    ELSE [raised |-> FALSE,
          symbols |-> <<Symbol(<<"f", ToString(i)>>, 12, 1, 5, None, <<>>),
                        Symbol(<<"LIMIT">>, 14, 7, 7, None, <<>>)>>]

\* the answers for the files of a directory, cli.rs answering first
Answers(n, first, unreadable) ==
    [i \in 1..n |-> IF i = 1 THEN first ELSE ModReply(i, unreadable)]

\* the scans that are made, each with what it returns
Scans ==
    {[files |-> n,
      failed |-> {i \in 1..n : Answers(n, first, unreadable)[i].raised},
      result |-> process_workspace_symbol_query(
                    Glob(n), Answers(n, first, unreadable))] :
       n \in DirSizes, first \in DocSymbolReplies(CliRs),
       unreadable \in Unreadable}

\* a directory-mode call of process_workspace_symbol_query, on a directory
\* or on the single file cli.rs
DirectoryScan ==
    /\ docRequests <= MaxDocRequests
    /\ \E scan \in Scans :
          /\ docRequests' = docRequests + Len(scan.result.asked)
          /\ out' = [NoOut EXCEPT
                        !.op = "scan",
                        !.arg = [files |-> scan.files,
                                 failed |-> scan.failed,
                                 cached |-> DOMAIN cache],
                        !.names = scan.result.names,
                        !.requests = Len(scan.result.asked)]
    /\ UNCHANGED <<cache, probe, sessVars, execVars, pollVars>>

ScanNext == DirectoryScan \/ FindEnclosing

ResolveInit == SessInit /\ ExecIdle /\ ResIdle /\ PollIdle

ResolveNext == ExtractName \/ ReverseResolveName

ResolveSpec == ResolveInit /\ [][ResolveNext]_vars

HopSpec == ResolveInit /\ [][SingleHopResult]_vars

CacheSpec == ResolveInit /\ [][FindEnclosing]_vars

SearchSpec == ResolveInit /\ [][FindContaining]_vars

ScanSpec == ResolveInit /\ [][ScanNext]_vars

----------------------------------------------------------------------------
(* Properties of the session *)

Waiting == pc \in {"poll", "sleep"}

Delivered == last.outcome \in {"result", "error"}

\* C1: whenever _send_request returns a result or raises a protocol error,
\* the message it popped from the response table carries the id allocated
\* for that request at send time, whatever the order of the replies.
C1_ResponseCarriesRequestId == Delivered => last.msg.id = last.id

\* a request got its own reply while the reply to an earlier, timed-out
\* request had arrived as well
C1_Witness ==
    /\ last.outcome = "result"
    /\ last.msg.kind = "result"
    /\ \E k \in DOMAIN responses : responses[k].late /\ k < last.id

\* C2: a reply the reader thread stored after its request had failed with
\* TimeoutError is never returned to, nor raised in, a later request.
C2_LateReplyNeverSurfaced == ~last.msg.late

\* a late reply is in the table and a later request has been delivered
C2_Witness ==
    /\ Delivered
    /\ \E k \in timedOut : k \in DOMAIN responses /\ responses[k].late
                           /\ last.id > k

\* C3: a stored message is consumed at most once: every message stored is
\* still in the table, was overwritten, or was popped by one request, and
\* the popped message is gone from the table.
C3_ConsumedAtMostOnce == consumed + Cardinality(DOMAIN responses) <= nmsg

\* a request was delivered and a second message with its id arrived after
\* the pop
C3_Witness == Delivered /\ last.id \in DOMAIN responses

\* C4: the ids of the request frames grow strictly in send order, every
\* _send_request call takes one id (also the handshake and the calls that
\* fail), and a notification takes none.
C4_IdsStrictlyIncreasing ==
    /\ \A i, j \in 1..Len(wire) :
          (i < j /\ wire[i].hasId /\ wire[j].hasId) => wire[i].id < wire[j].id
    /\ \A i \in 1..Len(wire) : wire[i].hasId = (wire[i].method # "initialized")
    /\ request_id = calls

\* the handshake, its notification, a request that timed out and a request
\* after it are on the wire
C4_Witness ==
    /\ timedOut # {}
    /\ \E i, j \in 1..Len(wire) :
          /\ i < j
          /\ ~wire[i].hasId
          /\ wire[j].hasId
          /\ \E t \in timedOut : t < wire[j].id

\* the shape of a finished call
WellFormed(call) ==
    /\ call.outcome = "result" =>
          call.msg # NoMsg /\ call.msg.id = call.id /\ call.msg.kind # "error"
    /\ call.outcome = "error" =>
          call.msg.id = call.id /\ call.msg.kind = "error"
    /\ call.outcome \in {"timeout", "send_error", "none"} => call.msg = NoMsg

C5_Outcomes ==
    /\ last.outcome \in {"none", "result", "error", "timeout", "send_error"}
    /\ WellFormed(last)
    /\ last.outcome = "send_error" => ~procAlive
    /\ Waiting => /\ elapsed <= TimeoutOf(cur.method)
                  /\ ENABLED (Poll \/ Wake)

C6_HandshakeOrdered ==
    /\ wire # <<>> => wire[1].method = "initialize"
    /\ \A j \in 1..Len(wire) :
          /\ wire[j].method = "initialized" => (j > 1 /\ handshake = "ok")
          /\ wire[j].method \in QueryMethods =>
                \E i \in 1..(j - 1) : wire[i].method = "initialized"
    /\ handshake = "failed" =>
          \A j \in 1..Len(wire) : wire[j].method \notin QueryMethods

\* a query request was sent after the handshake
C6_Witness ==
    \E j \in 1..Len(wire) : wire[j].method \in QueryMethods /\ j = 3

C8_AfterFailure ==
    /\ readFailed => recvState = "exited"
    /\ (last.afterExit /\ last.id \notin exitKeys) =>
          last.outcome \in {"timeout", "send_error"}

C8_NothingStored ==
    readFailed =>
       /\ readFailed'
       /\ nmsg' = nmsg
       /\ DOMAIN responses' \subseteq DOMAIN responses
       /\ \A k \in DOMAIN responses' : responses'[k] = responses[k]

----------------------------------------------------------------------------
(* Properties of the executors *)

\* C7 as stated: a failure while one target or one hop is processed is
\* isolated, so every query of the run has been processed when main ends.
C7_FailureIsolated == xpc = "exit" => Len(results) = Len(queries)

InLaterHop == xpc = "chain" /\ 1 < ci /\ ci <= Len(queries[qi].chain)

\* the loop of the hop has passed the twentieth name, or the last one
HopOver == InLaterHop /\ idx > Min(Len(current_names), FanoutCap)

\* C9: in a hop after the first, the names handed to reverse resolution are
\* a prefix of the carried-over list, never more than 20, and when the hop is
\* over exactly its first min(N, 20) names; a chain of k hops makes at most
\* 1 + 20 * (k - 1) single-hop calls.
C9_FanoutCapped ==
    /\ InLaterHop =>
          /\ Len(expanded) <= Min(Len(current_names), FanoutCap)
          /\ expanded = SubSeq(current_names, 1, Len(expanded))
          /\ hopCalls <= 1 + FanoutCap * (ci - 2) + Len(expanded)
          /\ HopOver => Len(expanded) = Min(Len(current_names), FanoutCap)
    /\ (xpc = "chain" /\ ci > Len(queries[qi].chain)) =>
          hopCalls <= 1 + FanoutCap * (Len(queries[qi].chain) - 1)

\* a hop that got more than 20 names is over: 20 expanded, the rest dropped
C9_Witness ==
    /\ HopOver
    /\ Len(current_names) > FanoutCap
    /\ Len(expanded) = FanoutCap
    /\ hopCalls = 1 + FanoutCap

IsSingleOf(q, m, t) == q.type = "single_hop" /\ q.method = m /\ q.target = t

IsChainOfOne(q, m, t) ==
    /\ q.type = "chain"
    /\ Len(q.chain) = 1
    /\ q.chain[1].method = m
    /\ q.chain[1].target = t

\* C10: a chain query of one hop with an explicit target returns the same
\* set of names as the single-hop query with that method and target.
C10_ChainOfOneIsSingleHop ==
    \A i, j \in 1..Len(results) :
       \A m \in HopMethods :
          (IsSingleOf(queries[i], m, SeedTarget)
             /\ IsChainOfOne(queries[j], m, SeedTarget))
          => results[i] = results[j]

\* both queries of a run returned, with names, from more locations than
\* names
C10_Witness ==
    /\ Len(results) = 2
    /\ \E i, j \in 1..2 :
          /\ IsSingleOf(queries[i], "textDocument/references", SeedTarget)
          /\ IsChainOfOne(queries[j], "textDocument/references", SeedTarget)
          /\ results[j] # {}
          /\ Cardinality(results[j]) < world.n0

\* the loop of a later hop is at a name of current_names[:20]
Expanding == InLaterHop /\ idx <= Min(Len(current_names), FanoutCap)

\* the workspace/symbol response for name n holds no candidate in a file of
\* the name's crate, crates/core
NoUsableCandidate(w, n) ==
    LET response == WorkspaceSymbols(w, n)
    IN /\ ~response.raised
       /\ \A i \in DOMAIN response.results :
             ~Contains(response.results[i].uri, <<"crates", "/", "core", "/">>)

\* C11 as stated: when reverse resolution of a carried-over name finds no
\* usable workspace/symbol candidate (none in the response, or none in the
\* name's crate), the hop makes no single-hop call and sends no request for
\* it, adds no name, raises nothing and goes on with the next name.
C11_UnresolvedNameSkipped ==
    [][(Expanding /\ NoUsableCandidate(world, current_names[idx])) =>
          /\ idx' = idx + 1
          /\ xpc' = "chain"
          /\ hopCalls' = hopCalls
          /\ wirePos' = wirePos
          /\ new_names' = new_names
          /\ current_names' = current_names
          /\ ci' = ci]_vars

\* C14: a single-hop target path:line:col is sent as the zero-indexed
\* position (line - 1, col - 1); in a later hop of a chain the position
\* sent is exactly the zero-indexed position reverse resolution returned.
C14_PositionsConverted ==
    [][/\ (/\ xpc = "main"
           /\ qi <= Len(queries)
           /\ Dispatch(queries[qi]) = "single_hop"
           /\ queries[qi].target # NoTarget
           /\ queries[qi].method \in LocationMethods)
          => wirePos' = [file |-> queries[qi].target.file,
                         line |-> queries[qi].target.line - 1,
                         col |-> queries[qi].target.col - 1]
       /\ (/\ Expanding
           /\ ReverseResolve(world, current_names[idx]) # NoLoc
           /\ queries[qi].chain[ci].method \in LocationMethods)
          => wirePos' = ReverseResolve(world, current_names[idx])]_vars

\* a later hop has sent a request at the declaration of the name it
\* expanded last, beyond line 1
C14_Witness ==
    /\ InLaterHop
    /\ expanded # <<>>
    /\ wirePos = ReverseResolve(world, expanded[Len(expanded)])
    /\ wirePos.line > 1
    /\ wirePos.col > 0

\* the names after hop k of a chain, hop by hop: the single-hop output at
\* the explicit target, then the union of the single-hop outputs at the
\* locations of the capped names of the hop before
RECURSIVE HopNames(_, _, _)
HopNames(w, chain, k) ==
    IF k = 1
    THEN IF chain[1].target = NoTarget THEN <<>>
         ELSE ListOfSet(w, ProcessSingleHop(w,
                  [method |-> chain[1].method, target |-> chain[1].target]).names)
    ELSE LET before == HopNames(w, chain, k - 1)
             first == {before[i] : i \in 1..Min(Len(before), FanoutCap)}
         IN ListOfSet(w,
               UNION {ProcessSingleHop(w, NextHopQuery(chain[k].method,
                                          ReverseResolve(w, n))).names :
                         n \in {m \in first : ReverseResolve(w, m) # NoLoc}})

IsChain(q) == q.type = "chain" /\ q.chain # <<>>

\* C19: a chain query returns the name set of its last hop alone; the set
\* of a later hop is the union, without duplicates, of the single-hop
\* outputs at the reverse-resolved locations of the first 20 names of the
\* hop before.
C19_FinalStepOnly ==
    \A i \in 1..Len(results) :
       IsChain(queries[i]) =>
          results[i] = Range(HopNames(world, queries[i].chain,
                                      Len(queries[i].chain)))

\* a chain of two hops returned names, and a name of its first hop is not
\* among them
C19_Witness ==
    \E i \in 1..Len(results) :
       /\ IsChain(queries[i])
       /\ Len(queries[i].chain) = 2
       /\ results[i] # {}
       /\ \E n \in Range(HopNames(world, queries[i].chain, 1)) :
             n \notin results[i]

OtherOrder(w) ==
    [w EXCEPT !.order = IF w.order = "asc" THEN "desc" ELSE "asc"]

\* C20 as stated: with the same descriptor and the same answers of the
\* subprocess, a run in which the sets are listed in another order returns
\* the same names.
C20_Deterministic ==
    \A i \in 1..Len(results) :
       (IsChain(queries[i]) /\ world.raiseAt = -1) =>
          results[i] = Range(HopNames(OtherOrder(world), queries[i].chain,
                                      Len(queries[i].chain)))

----------------------------------------------------------------------------
(* Properties of the resolver *)

\* the declarations whose forward name is the qualified name
DeclarationsNamed(qualified_name) ==
    {d \in Declarations :
        construct_qualified_name_from_file(RelPath(PathOfUri(d.uri)), d.name)
           = qualified_name}

\* the bare symbol of the name is declared once in the checkout, in one
\* file, and the response to workspace/symbol holds that declaration
DefinedInOneFile(qualified_name, found) ==
    /\ Cardinality(DeclarationsNamed(qualified_name)) = 1
    /\ Cardinality({d \in Declarations :
                       d.name = BareSymbol(Split(qualified_name, "::"))}) = 1
    /\ \E i \in 1..Len(found) : found[i] \in DeclarationsNamed(qualified_name)

\* the location process_chain_query makes of a place: file_path:line+1:col+1,
\* taken back to zero-indexed positions under the repository root
LocationOfPlace(place) ==
    Location(UriOf(place.file_path), place.line, place.col, place.col)

\* C12: for a symbol defined in exactly one file, the location that
\* resolve_qualified_name_to_location returns for its qualified name is
\* resolved by extract_qualified_name_from_location to that qualified name.
C12_RoundTrip ==
    (/\ out.op = "reverse"
     /\ ~out.raised
     /\ DefinedInOneFile(out.arg.qualified_name, out.arg.results))
    => /\ out.place.found
       /\ extract_qualified_name_from_location(LocationOfPlace(out.place))
             = out.arg.qualified_name

\* the identifier written on a line of a file, with the columns it occupies
\* (start inclusive, end exclusive); None on a line without one
IdentifierOn(rel_path, n) ==
    IF Declared(rel_path, n) # None
    THEN [text |-> Declared(rel_path, n), from |-> 4,
          to |-> 4 + Len(Declared(rel_path, n))]
    ELSE IF n = 7 \/ (rel_path = CliRs /\ n \in {105, 115, 120})
    THEN [text |-> <<"resolve", "_", "path">>, from |-> 2, to |-> 5]
    ELSE [text |-> None, from |-> 0, to |-> 0]

\* the location lies on the identifier of its line
OnIdentifier(rel_path, location) ==
    LET id == IdentifierOn(rel_path, location.start.line)
    IN /\ id.text # None
       /\ id.from <= location.start.character
       /\ location.start.character <= location.end.character
       /\ location.end.character <= id.to

\* <crate with '-' replaced by '_'>::<dirs...>::<stem>::<ident>, the stem
\* left out when it is lib or mod
ExpectedName(crate, dirs, stem, ident) ==
    LET underscored == [i \in 1..Len(crate) |->
                           IF crate[i] = "-" THEN "_" ELSE crate[i]]
        segments == IF stem \in {<<"lib">>, <<"mod">>} THEN dirs
                    ELSE Append(dirs, stem)
    IN Join(<<underscored>> \o segments \o <<ident>>, "::")

\* C15: a location on the identifier <ident> in
\* crates/<crate>/src/<dirs...>/<stem>.rs is resolved forward to
\* <crate with '-' replaced by '_'>::<dirs...>::<stem>::<ident>, without the
\* stem when it is lib or mod; resolve_path in crates/hir-def/src/resolver.rs
\* is resolved to hir_def::resolver::resolve_path.
C15_ForwardName ==
    out.op = "extract" =>
       /\ \A crate \in Crates, dirs \in Dirs, stem \in Stems :
             LET rel_path == SourcePath(crate, dirs, stem)
             IN (/\ out.arg.uri = UriOf(rel_path)
                 /\ OnIdentifier(rel_path, out.arg))
                => out.name =
                      ExpectedName(crate, dirs, stem,
                          IdentifierOn(rel_path, out.arg.start.line).text)
       /\ (/\ out.arg.uri = UriOf(ResolverRs)
           /\ OnIdentifier(ResolverRs, out.arg))
          => out.name = <<"hir", "_", "def", "::", "resolver", "::",
                          "resolve", "_", "path">>

\* the declaration of resolve_path in crates/hir-def/src/resolver.rs has been
\* resolved
C15_Witness ==
    /\ out.op = "extract"
    /\ out.arg = Location(UriOf(ResolverRs), 41, 4, 7)
    /\ out.name = <<"hir", "_", "def", "::", "resolver", "::",
                    "resolve", "_", "path">>

\* the file lies in the directory of the crate: crates/<crate>/..., the
\* crate's name written with underscores or with dashes
BelongsToCrate(rel_path, crate) ==
    LET dirs == Split(rel_path, "/")
    IN /\ Len(dirs) > 2
       /\ dirs[1] = <<"crates">>
       /\ [i \in 1..Len(dirs[2]) |->
              IF dirs[2][i] = "-" THEN "_" ELSE dirs[2][i]]
          = [i \in 1..Len(crate) |-> IF crate[i] = "-" THEN "_" ELSE crate[i]]

\* C24: for a name with a crate segment, reverse resolution returns the
\* first candidate of the response that lies in a file of the crate named
\* by the first segment, and none when no candidate lies in that crate; a
\* candidate in a crate whose directory name only begins with the crate's
\* name is not returned.
C24_OnlyOwnCrate ==
    (/\ out.op = "reverse"
     /\ ~out.raised
     /\ Len(Split(out.arg.qualified_name, "::")) > 1
     /\ BareSymbol(Split(out.arg.qualified_name, "::")) # None)
    => LET found == out.arg.results
           crate == Split(out.arg.qualified_name, "::")[1]
           own == {i \in 1..Len(found) :
                      /\ IsFileUri(found[i].uri)
                      /\ BelongsToCrate(RelPath(PathOfUri(found[i].uri)),
                                        crate)}
       IN IF own = {} THEN ~out.place.found
          ELSE LET first == CHOOSE i \in own : \A j \in own : i <= j
               IN out.place =
                     [found |-> TRUE,
                      file_path |-> RelPath(PathOfUri(found[first].uri)),
                      line |-> found[first].line,
                      col |-> found[first].character]

----------------------------------------------------------------------------
(* Properties of the enclosing search and its cache *)

\* C13: once the document symbols of a file are cached, resolving a location
\* of the file that has been resolved before yields the name it yielded
\* before, and sends no textDocument/documentSymbol request.
C13_WarmCacheIdempotent ==
    [][(/\ probe # NoProbe
        /\ out'.op = "enclosing"
        /\ out'.arg = probe.location)
       => /\ out'.name = probe.name
          /\ out'.requests = 0
          /\ docRequests' = docRequests
          /\ cache' = cache]_vars

\* a location of cli.rs inside parse_args has been resolved a second time,
\* from the cache, after the one request that filled it
C13_Witness ==
    /\ out.op = "enclosing"
    /\ out.warm
    /\ out.arg = probe.location
    /\ out.arg.uri = UriOf(CliRs)
    /\ out.name = probe.name
    /\ out.name # None
    /\ out.requests = 0
    /\ docRequests = 1

\* the function and method records of a symbol list, children included,
\* each with its full name and its range
RECURSIVE FunctionRecords(_, _)
FunctionRecords(symbols, parent_name) ==
    UNION {LET sym == symbols[i]
               full_name == FullName(sym, parent_name)
           IN (IF sym.kind \in {6, 12}
               THEN {[name |-> full_name, start_line |-> sym.start_line,
                      end_line |-> sym.end_line]}
               ELSE {})
              \cup FunctionRecords(sym.children, full_name) :
           i \in 1..Len(symbols)}

\* the records whose range holds the line and no smaller one does
Innermost(symbols, ref_line) ==
    LET holding == {r \in FunctionRecords(symbols, None) :
                       r.start_line <= ref_line /\ ref_line <= r.end_line}
    IN {r \in holding :
           \A q \in holding :
              q.end_line - q.start_line >= r.end_line - r.start_line}

ParseArgsName == <<"core", "::", "cli", "::", "parse", "_", "args">>

\* the document symbols of cli.rs are at hand and the location lies in
\* lines 100-140, the range of parse_args
InParseArgs ==
    /\ out.op = "enclosing"
    /\ out.arg.uri = UriOf(CliRs)
    /\ CliRs \in DOMAIN cache
    /\ cache[CliRs] # <<>>
    /\ 100 <= out.arg.start.line
    /\ out.arg.start.line <= 140

\* C16 as stated: every location whose line lies within lines 100-140 of
\* parse_args in crates/core/src/cli.rs resolves to core::cli::parse_args,
\* whatever its line and column.
C16_AnyLineOfFunction ==
    InParseArgs => out.name = ParseArgsName

\* C16: with the document symbols of the file at hand, a location resolves
\* to the name of the innermost function or method whose range holds its
\* line, whatever its line and column in that range, and to none when no
\* function or method holds it; a location in lines 100-140 of parse_args
\* outside the function nested in it resolves to core::cli::parse_args.
C16_InnermostFunction ==
    (/\ out.op = "enclosing"
     /\ IsFileUri(out.arg.uri)
     /\ RelPath(PathOfUri(out.arg.uri)) \in DOMAIN cache)
    => LET rel_path == RelPath(PathOfUri(out.arg.uri))
           inner == Innermost(cache[rel_path], out.arg.start.line)
       IN /\ inner = {} => out.name = None
          /\ \A r \in inner :
                out.name = construct_qualified_name_from_file(rel_path, r.name)
          /\ (/\ InParseArgs
              /\ ~(110 <= out.arg.start.line /\ out.arg.start.line <= 118))
             => out.name = ParseArgsName

\* the last line of parse_args has been resolved, with the function nested
\* in parse_args among the symbols
C16_Witness ==
    /\ InParseArgs
    /\ out.arg.start.line = 140
    /\ out.arg.start.character = 2
    /\ \E i \in 1..Len(cache[CliRs]) : cache[CliRs][i].children # <<>>
    /\ out.name = ParseArgsName

----------------------------------------------------------------------------
(* Properties of a single hop *)

\* the name of the innermost function or method around a location, from the
\* document symbols the hop leaves in the cache; none without them
EnclosingName(location) ==
    LET rel_path == RelPath(PathOfUri(location.uri))
    IN IF ~IsFileUri(location.uri) \/ rel_path \notin DOMAIN cache
       THEN {}
       ELSE {construct_qualified_name_from_file(rel_path, r.name) :
                r \in Innermost(cache[rel_path], location.start.line)}

\* the name of the symbol written at a location; none where nothing is
\* written
WrittenName(location) ==
    {extract_qualified_name_from_location(location)} \ {None}

\* the names of the Location objects among the items of a result, each
\* resolved as the method asks
NamesOfItems(method, items) ==
    UNION {IF method = "textDocument/references"
           THEN EnclosingName(items[i].loc)
           ELSE WrittenName(items[i].loc) :
           i \in {j \in 1..Len(items) : HasUriKey(items[j])}}

\* C17: a single hop returns each name once, and exactly the names of the
\* returned locations: for textDocument/references the enclosing function
\* or method, for textDocument/implementation and textDocument/definition
\* the symbol at the location, without a document-symbol request; a
\* location without a name adds nothing.
C17_NamesOfLocations ==
    (/\ out.op = "single_hop"
     /\ out.arg.method \in LocationMethods
     /\ ~out.raised)
    => /\ \A i, j \in 1..Len(out.names) :
             i # j => out.names[i] # out.names[j]
       /\ Range(out.names) =
             NamesOfItems(out.arg.method, out.arg.result.items)
       /\ out.arg.method # "textDocument/references" => out.requests = 0

\* a references hop over two call sites of resolve_path, one in parse_args
\* and one in the function nested in it, has returned the two enclosing
\* functions
C17_Witness ==
    /\ out.op = "single_hop"
    /\ ~out.raised
    /\ out.arg.method = "textDocument/references"
    /\ Len(out.arg.result.items) = 2
    /\ Range(out.names) =
          {ParseArgsName, ParseArgsName \o <<"::", "helper">>}

\* C18: for each of the three methods, a result that is one Location object
\* is resolved like the list that holds that one object.
C18_BareObjectNormalised ==
    (/\ out.op = "single_hop"
     /\ out.arg.method \in LocationMethods
     /\ out.arg.result.shape = "object")
    => /\ ~out.raised
       /\ Range(out.names) =
             NamesOfItems(out.arg.method, out.arg.result.items)

----------------------------------------------------------------------------
(* Properties of the response table and of the end of a run *)

\* C28: the response table holds entries only for requests that are still
\* waiting; for a request that has timed out this says: no entry with its id
\* is in the table, its late reply is dropped, not kept.
C28_TableHoldsOnlyWaiting ==
    \A k \in DOMAIN responses : k \notin timedOut

\* C29: a _send_request call returns only a response to its request: a
\* request of the server's own that carries the id of the waiting request is
\* not returned as that request's result.
C29_OnlyResponsesComplete ==
    last.outcome \in {"result", "error"} => last.msg.kind \in {"result", "error"}

\* C30: a request whose response the reader thread stored before the
\* request's timeout had elapsed does not end in TimeoutError.
C30_StoredInTimeDelivered == inTime \cap timedOut = {}

\* the step delivers an error object to the caller of the waiting request
ErrorDelivered ==
    /\ pc \in {"poll", "sleep"}
    /\ last' # last
    /\ last'.outcome = "error"

\* C22: a protocol error surfaces to the caller of its request only: the
\* step that raises it removes that request's entry and leaves the reader
\* thread, the subprocess, the other entries of the table, the id counter
\* and the frames sent as they are; the request made next takes the next id,
\* and what it is given carries that id.
C22_ErrorLeavesSessionUsable ==
    [][/\ ErrorDelivered =>
            /\ last'.id = cur.id
            /\ last'.msg.id = cur.id
            /\ recvState' = recvState
            /\ procAlive' = procAlive
            /\ request_id' = request_id
            /\ wire' = wire
            /\ DOMAIN responses' = DOMAIN responses \ {cur.id}
            /\ \A k \in DOMAIN responses' : responses'[k] = responses[k]
       /\ (last.outcome = "error" /\ calls' = calls + 1) =>
            /\ request_id' = last.id + 1
            /\ procAlive => /\ cur'.id = last.id + 1
                            /\ wire'[Len(wire')].id = last.id + 1
       /\ (/\ last.outcome = "error"
           /\ last' # last
           /\ last'.outcome \in {"result", "error"}) =>
            /\ last'.id = last.id + 1
            /\ last'.msg.id = last'.id]_vars

\* after a protocol error for one request, raised with an entry of another
\* id in the table and the reader thread running, the next request has been
\* sent and waits
C22_Witness ==
    /\ last.outcome = "error"
    /\ recvState = "running"
    /\ procAlive
    /\ pc = "poll"
    /\ cur.id = last.id + 1
    /\ wire[Len(wire)].id = cur.id
    /\ \E k \in DOMAIN responses : k # cur.id /\ k # last.id

\* C21: every run ends with stop(): once the session object exists, main
\* reaches stop() whether the queries succeeded or a request failed; stop()
\* leaves no subprocess running (terminate, then kill after the grace
\* period), and no shutdown or exit message is ever written to the
\* subprocess.
C21_AlwaysTornDown ==
    /\ <>(/\ pc = "stopped"
          /\ ~procAlive
          /\ teardown \in {"no_process", "terminated", "killed"}
          /\ teardown = "no_process" <=> recvState = "none")
    /\ [](\A i \in 1..Len(wire) : wire[i].method \notin {"shutdown", "exit"})
    /\ [](teardown = "none" <=> pc # "stopped")

\* stop() has killed a subprocess that did not exit within the grace period,
\* at the end of a run in which a location request had failed
C21_Witness ==
    /\ pc = "stopped"
    /\ teardown = "killed"
    /\ ~procAlive
    /\ last.outcome \in {"timeout", "error"}
    /\ last.method \in LocationMethods

----------------------------------------------------------------------------
(* Properties of the search for the containing function *)

\* the function and method records of a listing, children included, each
\* with its full name, its range and its place in the tree
RECURSIVE TreeRecords(_, _, _)
TreeRecords(symbols, parent_name, path) ==
    UNION {LET sym == symbols[i]
               full_name == FullName(sym, parent_name)
           IN (IF sym.kind \in {6, 12}
               THEN {[name |-> full_name, start_line |-> sym.start_line,
                      end_line |-> sym.end_line, path |-> Append(path, i)]}
               ELSE {})
              \cup TreeRecords(sym.children, full_name, Append(path, i)) :
           i \in 1..Len(symbols)}

\* q lies below r in the tree
Below(q, r) ==
    /\ Len(q.path) > Len(r.path)
    /\ SubSeq(q.path, 1, Len(r.path)) = r.path

\* the function and method records whose range holds the line
Holding(symbols, ref_line) ==
    {r \in TreeRecords(symbols, None, <<>>) :
        r.start_line <= ref_line /\ ref_line <= r.end_line}

\* C23: over a flat or nested listing the search returns the full name of a
\* function or method record whose range holds the line, than which no such
\* record has a smaller range and below which no such record lies; it
\* returns none exactly when no function or method record holds the line.
C23_SmallestContaining ==
    out.op = "containing" =>
       LET holding == Holding(out.arg.symbols, out.arg.ref_line)
       IN /\ out.name = None <=> holding = {}
          /\ holding # {} =>
                \E r \in holding :
                   /\ out.name = r.name
                   /\ \A q \in holding :
                         /\ q.end_line - q.start_line
                               >= r.end_line - r.start_line
                         /\ ~Below(q, r)

\* line 113 has been searched in a flat listing that names parse_args
\* before helper and inner: the smallest of the three is returned
C23_Witness ==
    /\ out.op = "containing"
    /\ out.arg.ref_line = 113
    /\ Len(out.arg.symbols) = 3
    /\ out.arg.symbols[1].name = <<"parse", "_", "args">>
    /\ out.arg.symbols[3].name = <<"inner">>
    /\ out.arg.symbols[3].children = <<>>
    /\ out.name = <<"helper", "::", "inner">>

----------------------------------------------------------------------------
(* Properties of the directory scan and of the cache over a run *)

\* the names the files from the i-th to the j-th of a directory can add
NamesWithin(i, j) ==
    {construct_qualified_name_from_file(Glob(j)[k], name) :
        k \in i..j,
        name \in {<<"parse">>, <<"parse", "_", "args">>, <<"helper">>}}
    \cup {construct_qualified_name_from_file(ModFile(k), <<"f", ToString(k)>>) :
             k \in i..j}

\* what the files read by a scan can add, and what the files after them can
WithinCap == NamesWithin(1, ScanCap)
BeyondCap == NamesWithin(ScanCap + 1, MaxFiles + 1)

\* C25: a directory scan sends textDocument/documentSymbol for the first
\* min(N, 50) of the N files enumerated and for no other, and every name it
\* returns comes from one of these files.
C25_ScanReadsFiftyFiles ==
    out.op = "scan" =>
       /\ out.requests <= ScanCap
       /\ out.requests = Min(out.arg.files, ScanCap)
       /\ out.names \subseteq WithinCap
       /\ out.names \cap BeyondCap = {}

\* a directory of more than fifty readable files has been scanned: fifty
\* requests were sent and the fiftieth file has added its function
C25_Witness ==
    /\ out.op = "scan"
    /\ out.arg.files > ScanCap
    /\ out.arg.failed = {}
    /\ out.requests = ScanCap
    /\ construct_qualified_name_from_file(
           ModFile(ScanCap), <<"f", ToString(ScanCap)>>) \in out.names

\* the files a scan has read
FilesRead(scan) ==
    {Glob(scan.files)[k] : k \in 1..Min(scan.files, ScanCap)}

\* C26: a directory scan sends a request only for the files it reads that
\* are not in the cache, and every file it has fetched is in the cache
\* afterwards.
C26_ScanThroughCache ==
    out.op = "scan" =>
       /\ out.requests = Cardinality(FilesRead(out.arg) \ out.arg.cached)
       /\ \A k \in 1..Min(out.arg.files, ScanCap) :
             k \notin out.arg.failed => Glob(out.arg.files)[k] \in DOMAIN cache

\* the step is a lookup that has stored the file of its location
StoredByLookup ==
    /\ out'.op = "enclosing"
    /\ IsFileUri(out'.arg.uri)
    /\ ~out'.warm
    /\ ~out'.raised
    /\ out'.requests = 1
    /\ DOMAIN cache' = DOMAIN cache \cup {RelPath(PathOfUri(out'.arg.uri))}

\* C27: from the empty cache a run starts with, every entry of the cache
\* stays as it was stored, and the cache changes only by the entry of a
\* file that was not in it and whose request, sent by this lookup, succeeded.
C27_CacheAppendOnly ==
    [][/\ \A rel_path \in DOMAIN cache :
             rel_path \in DOMAIN cache' /\ cache'[rel_path] = cache[rel_path]
       /\ cache' # cache => StoredByLookup
       /\ (out'.op = "enclosing" /\ out'.raised) => cache' = cache]_vars

\* two lookups have stored the symbols of both files, and a scan that sent
\* its own requests afterwards has left the two entries in place
C27_Witness ==
    /\ DOMAIN cache = {CliRs, ResolverRs}
    /\ cache[CliRs] # <<>>
    /\ cache[ResolverRs] # <<>>
    /\ out.op = "scan"
    /\ out.arg.cached = {CliRs, ResolverRs}
    /\ docRequests > 2

============================================================================
